---- MODULE Spec2Model ----
(***************************************************************************)
(* A model of pint's Quantity arithmetic/conversion engine                 *)
(* (src/pint/quantity.py) and of its System composition engine             *)
(* (src/pint/systems.py).                                                  *)
(*                                                                         *)
(* Magnitudes are exact rationals <<n, d>> in lowest terms with d > 0.     *)
(* A UnitsContainer is a function from unit names to integer exponents,    *)
(* exponent 0 standing for "no entry".                                     *)
(***************************************************************************)
EXTENDS Integers, Sequences, FiniteSets, TLC

VARIABLES
    q,          \* the two Quantity objects: q[x] = [kind, mag, units, dim]
    last,       \* record of the last Quantity operation and its outcome
    nops,       \* number of Quantity operations performed so far
    groups,     \* Registry._groups: group name -> the group's members
    systems,    \* Registry._systems: system name -> System object
    slast,      \* record of the last System operation and its outcome
    hist,       \* per System: what was called on it since its last read of members
    sops,       \* number of System operations performed so far
    lines       \* the lines of text given to SystemDefinition.from_lines

qvars == <<q, last, nops>>
svars == <<groups, systems, slast, hist, sops, lines>>
vars == <<q, last, nops, groups, systems, slast, hist, sops, lines>>

-----------------------------------------------------------------------------
(* Bounds of the model *)

\* largest |numerator| / denominator a stored magnitude may take
MaxMag == 200
\* largest |exponent| a stored UnitsContainer may hold
MaxExp == 2
\* number of Quantity operations in one behaviour
MaxOps == 2
\* number of operations on Systems and groups in one behaviour
MaxSysOps == 3
\* number of rules in a system definition
MaxRules == 2
\* number of System.from_definition calls in one behaviour
MaxCalls == 1
\* number of tokens of a header, after the stem "@system mks " if it has one
MaxHeader == 5

-----------------------------------------------------------------------------
(* Rational arithmetic on magnitudes *)

Abs(i) == IF i < 0 THEN -i ELSE i

RECURSIVE GCD(_, _)
GCD(a, b) == IF b = 0 THEN a ELSE GCD(b, a % b)

\* the rational n/d (d # 0) in lowest terms with a positive denominator
Reduced(n, d, g) ==
    IF d < 0 THEN <<(-n) \div g, (-d) \div g>> ELSE <<n \div g, d \div g>>

Rat(n, d) == Reduced(n, d, GCD(Abs(n), Abs(d)))

RInt(i) == <<i, 1>>
RAdd(a, b) == Rat(a[1] * b[2] + b[1] * a[2], a[2] * b[2])
RSub(a, b) == Rat(a[1] * b[2] - b[1] * a[2], a[2] * b[2])
RMul(a, b) == Rat(a[1] * b[1], a[2] * b[2])
RDiv(a, b) == Rat(a[1] * b[2], a[2] * b[1])
RLt(a, b) == a[1] * b[2] < b[1] * a[2]
RIsZero(a) == a[1] = 0
\* floor(a / b), as Python's // computes it
Floor(r) == RInt(r[1] \div r[2])

RFloorDiv(a, b) == Floor(RDiv(a, b))

RECURSIVE RPowNat(_, _)
RPowNat(a, k) == IF k = 0 THEN RInt(1) ELSE RMul(a, RPowNat(a, k - 1))
\* a ** k for an integer k (a # 0 when k < 0)
RPow(a, k) == IF k >= 0 THEN RPowNat(a, k) ELSE RDiv(RInt(1), RPowNat(a, -k))

-----------------------------------------------------------------------------
(* UnitsContainer: exponent vector over unit names *)

UnitNames == {"meter", "decameter", "second"}
UnitSeq == <<"meter", "decameter", "second">>

NoUnits == [u \in UnitNames |-> 0]
Unit(name) == [u \in UnitNames |-> IF u = name THEN 1 ELSE 0]

UMul(a, b) == [u \in UnitNames |-> a[u] + b[u]]
UDiv(a, b) == [u \in UnitNames |-> a[u] - b[u]]
UPow(a, k) == [u \in UnitNames |-> a[u] * k]

-----------------------------------------------------------------------------
(* The Registry collaborator *)

Dims == {"length", "time"}
DimOf(u) == IF u = "second" THEN "time" ELSE "length"
RefOf(u) == IF u = "second" THEN "second" ELSE "meter"
FactorOf(u) == IF u = "decameter" THEN RInt(10) ELSE RInt(1)

RECURSIVE SumExp(_, _, _)
\* sum of the exponents that `units` gives the units in sel, over UnitSeq[1..i]
SumExp(units, sel, i) ==
    IF i = 0 THEN 0
    ELSE (IF UnitSeq[i] \in sel THEN units[UnitSeq[i]] ELSE 0) + SumExp(units, sel, i - 1)

RECURSIVE FactorUpTo(_, _)
FactorUpTo(units, i) ==
    IF i = 0 THEN RInt(1)
    ELSE RMul(RPow(FactorOf(UnitSeq[i]), units[UnitSeq[i]]), FactorUpTo(units, i - 1))

base_dimensionality_of(units) ==
    [d \in Dims |-> SumExp(units, {u \in UnitNames : DimOf(u) = d}, Len(UnitSeq))]

\* <<factor, reference units>>
base_units_of(units) ==
    <<FactorUpTo(units, Len(UnitSeq)),
      [r \in UnitNames |->
          IF RefOf(r) = r
          THEN SumExp(units, {u \in UnitNames : RefOf(u) = r}, Len(UnitSeq))
          ELSE 0]>>

\* Registry.convert: [status, value]
convert(value, src, dst) ==
    IF base_dimensionality_of(src) # base_dimensionality_of(dst)
    THEN [status |-> "DimensionalityError", value |-> value]
    ELSE [status |-> "ok",
          value |-> RDiv(RMul(value, base_units_of(src)[1]), base_units_of(dst)[1])]

-----------------------------------------------------------------------------
(* Quantity objects *)

\* _dimensionality is {} while the attribute is not set, {d} once memoized
Quantity(value, units) ==
    [kind |-> "Quantity", mag |-> value, units |-> units, dim |-> {}]

\* a bare number as a right operand
Number(value) ==
    [kind |-> "number", mag |-> value, units |-> NoUnits, dim |-> {}]

__copy__(self) == Quantity(self.mag, self.units)

\* the dimensionality property: <<self after the read, value read>>
MemoVal(self) == CHOOSE d \in self.dim : TRUE

Memoize(self, d) == <<[self EXCEPT !.dim = {d}], d>>

dimensionality(self) ==
    IF self.dim # {}
    THEN <<self, MemoVal(self)>>
    ELSE Memoize(self, base_dimensionality_of(self.units))

\* fu = <<factor, reference units>>, as Registry.base_units_of returns it
Rescaled(self, fu) == Quantity(RMul(self.mag, fu[1]), fu[2])

convert_to_reference(self) == Rescaled(self, base_units_of(self.units))

NoDims == [d \in Dims |-> 0]

dimensionless(self) ==
    dimensionality(convert_to_reference(__copy__(self)))[2] = NoDims

-----------------------------------------------------------------------------
(* Quantity operations.  Each returns a record                             *)
(*   [status, self, other, ret, truth]                                     *)
(* status : "ok" or the name of the exception raised;                      *)
(* self, other : the two operand objects as the call leaves them;          *)
(* ret : the Quantity returned (self for the in-place forms);              *)
(* truth : the boolean returned by a comparison.                           *)
(***************************************************************************)

Result(status, self, other, ret, truth) ==
    [status |-> status, self |-> self, other |-> other, ret |-> ret, truth |-> truth]

Raise(exc, self, other) == Result(exc, self, other, self, FALSE)

\* ito once the Registry has answered c = [status, value]
ito_store(self, other, c) ==
    IF c.status # "ok"
    THEN Raise(c.status, self, other)
    ELSE Result("ok", [self EXCEPT !.mag = c.value, !.units = other.units], other,
                [self EXCEPT !.mag = c.value, !.units = other.units], FALSE)

ito(self, other) ==
    ito_store(self, other, convert(self.mag, self.units, other.units))

\* to once ito has acted on the copy: r is ito's outcome on the copy
to_return(self, other, r) ==
    IF r.status # "ok"
    THEN Raise(r.status, self, other)
    ELSE Result("ok", self, other, r.self, FALSE)

\* a to that rescales self instead of a copy of it
to_inplace(self, other) == ito(self, other)

to(self, other) == to_return(self, other, ito(__copy__(self), other))

\* operator.iadd / operator.isub on magnitudes
Apply(fun, a, b) == IF fun = "iadd" THEN RAdd(a, b) ELSE RSub(a, b)

\* self with its magnitude replaced, returned as the result of an in-place call
Stored(self, other, mag) ==
    Result("ok", [self EXCEPT !.mag = mag], other, [self EXCEPT !.mag = mag], FALSE)

\* the branch of iadd_sub for units that differ: t is the outcome of other.to(self)
iadd_sub_converted(self, other, fun, t) ==
    IF t.status # "ok"
    THEN Raise(t.status, self, other)
    ELSE Stored(self, other, Apply(fun, self.mag, t.ret.mag))

\* the branch of iadd_sub for a Quantity operand: sd, od are the outcomes
\* <<object, value>> of reading self.dimensionality and other.dimensionality
iadd_sub_quantity(sd, od, fun) ==
    IF ~(sd[2] = od[2])
    THEN Raise("DimensionalityError", sd[1], od[1])
    ELSE IF sd[1].units = od[1].units
         THEN Stored(sd[1], od[1], Apply(fun, sd[1].mag, od[1].mag))
         ELSE iadd_sub_converted(sd[1], od[1], fun, to(od[1], sd[1]))

iadd_sub(self, other, fun) ==
    IF other.kind = "Quantity"
    THEN iadd_sub_quantity(dimensionality(self), dimensionality(other), fun)
    ELSE IF dimensionless(self)
         THEN Stored(self, other, Apply(fun, self.mag, other.mag))
         ELSE Raise("DimensionalityError", self, other)

\* add_sub once fun has acted on the copy: r is its outcome on the copy
add_sub_return(self, r) ==
    IF r.status # "ok"
    THEN Raise(r.status, self, r.other)
    ELSE Result("ok", self, r.other, r.self, FALSE)

add_sub(self, other, fun) ==
    add_sub_return(self, iadd_sub(__copy__(self), other, fun))

\* n + q and n - q for a non-Quantity n: Python calls q.__radd__(n),
\* q.__rsub__(n), which are __add__ and __sub__ under another name
__radd__(self, other) == add_sub(self, other, "iadd")

__rsub__(self, other) == add_sub(self, other, "isub")

\* self with magnitude and units replaced, returned by an in-place call
StoredBoth(self, other, mag, units) ==
    Result("ok", [self EXCEPT !.mag = mag, !.units = units], other,
           [self EXCEPT !.mag = mag, !.units = units], FALSE)

__imul__(self, other) ==
    IF other.kind = "Quantity"
    THEN StoredBoth(self, other, RMul(self.mag, other.mag),
                    UMul(self.units, other.units))
    ELSE Stored(self, other, RMul(self.mag, other.mag))

__itruediv__(self, other) ==
    IF RIsZero(other.mag)
    THEN Raise("ZeroDivisionError", self, other)
    ELSE IF other.kind = "Quantity"
         THEN StoredBoth(self, other, RDiv(self.mag, other.mag),
                         UDiv(self.units, other.units))
         ELSE Stored(self, other, RDiv(self.mag, other.mag))

__ifloordiv__(self, other) ==
    IF RIsZero(other.mag)
    THEN Raise("ZeroDivisionError", self, other)
    ELSE IF other.kind = "Quantity"
         THEN StoredBoth(self, other, RFloorDiv(self.mag, other.mag),
                         UDiv(self.units, other.units))
         ELSE Stored(self, other, RFloorDiv(self.mag, other.mag))

\* other is a plain integer exponent
__ipow__(self, other) ==
    IF RIsZero(self.mag) /\ other < 0
    THEN Raise("ZeroDivisionError", self, Number(RInt(other)))
    ELSE StoredBoth(self, Number(RInt(other)), RPow(self.mag, other),
                    UPow(self.units, other))

_eq(a, b) == a = b

\* the zero-magnitude branch of __eq__: sd, od as in iadd_sub_quantity
eq_zero(sd, od) == Result("ok", sd[1], od[1], sd[1], sd[2] = od[2])

\* the last branch of __eq__: t is the outcome of self.to(other)
eq_converted(self, other, t) ==
    IF t.status = "DimensionalityError"
    THEN Result("ok", self, other, self, FALSE)
    ELSE Result("ok", self, other, self, _eq(t.ret.mag, other.mag))

__eq__(self, other) ==
    IF other.kind # "Quantity"
    THEN Result("ok", self, other, self, dimensionless(self) /\ _eq(self.mag, other.mag))
    ELSE IF _eq(self.mag, RInt(0)) /\ _eq(other.mag, RInt(0))
         THEN eq_zero(dimensionality(self), dimensionality(other))
         ELSE IF self.units = other.units
              THEN Result("ok", self, other, self, _eq(self.mag, other.mag))
              ELSE eq_converted(self, other, to(self, other))

\* the branch of __lt__ for units that differ: sd, od as in iadd_sub_quantity
lt_quantity(sd, od) ==
    IF sd[2] # od[2]
    THEN Raise("DimensionalityError", sd[1], od[1])
    ELSE Result("ok", sd[1], od[1], sd[1],
                RLt(convert_to_reference(sd[1]).mag,
                    convert_to_reference(sd[1]).mag))

__lt__(self, other) ==
    IF other.kind # "Quantity"
    THEN IF dimensionless(self)
         THEN Result("ok", self, other, self, RLt(self.mag, other.mag))
         ELSE Raise("ValueError", self, other)
    ELSE IF self.units = other.units
         THEN Result("ok", self, other, self, RLt(self.mag, other.mag))
         ELSE lt_quantity(dimensionality(self), dimensionality(other))

-----------------------------------------------------------------------------
(* Systems: dictionaries are functions whose DOMAIN is the set of keys *)

EmptyDict == [k \in {} |-> 0]

\* d[key] = val, as a dict assignment
Put(d, key, val) == [k \in DOMAIN d \cup {key} |-> IF k = key THEN val ELSE d[k]]

\* d.update(e)
Update(d, e) == [k \in DOMAIN d \cup DOMAIN e |-> IF k \in DOMAIN e THEN e[k] ELSE d[k]]

\* the absent old unit of a bare rule
None == "None"

(* The root-unit resolver collaborator: get_root_func(name)[1], the          *)
(* expansion of a unit into root units, as a dict root unit -> exponent.     *)
RootUnits == {"meter", "second", "gram"}

get_root_func(name) ==
    CASE name \in RootUnits -> Put(EmptyDict, name, 1)
      [] name = "kilogram" -> Put(EmptyDict, "gram", 1)
      [] name = "hectare"  -> Put(EmptyDict, "meter", 2)
      [] name = "hertz"    -> Put(EmptyDict, "second", -1)
      [] name = "newton"   -> Put(Put(Put(EmptyDict, "gram", 1), "meter", 1), "second", -2)
      [] OTHER             -> EmptyDict

\* old_unit == str(container): a UnitsContainer prints as a bare unit name
\* exactly when that unit is its only entry, with exponent 1
StrIs(container, name) ==
    /\ DOMAIN container = {name}
    /\ container[name] = 1

(* System objects *)

\* _computed_members: None, or a frozenset
NoneMembers == [isNone |-> TRUE, val |-> {}]
Frozen(S) == [isNone |-> FALSE, val |-> S]

\* System.__init__, without the registration in the system table
NewSystem(name) ==
    [name |-> name, base_units |-> EmptyDict, derived_units |-> {},
     used_groups |-> {}, computed_members |-> NoneMembers]

\* the union computed by the loop of System.members over the used groups
\* that resolve in the registry's group table d
ComputeMembers(system, d) ==
    UNION {d[group_name] : group_name \in system.used_groups \cap DOMAIN d}

\* a members that does not keep a set it computed with a group missing
members_drop_partial(system, d) ==
    IF system.computed_members.isNone
    THEN <<IF system.used_groups \subseteq DOMAIN d
           THEN [system EXCEPT !.computed_members = Frozen(ComputeMembers(system, d))]
           ELSE system,
           ComputeMembers(system, d)>>
    ELSE <<system, system.computed_members.val>>

\* a members that computes the union on every read
members_recompute(system, d) ==
    <<[system EXCEPT !.computed_members = Frozen(ComputeMembers(system, d))],
      ComputeMembers(system, d)>>

\* the members property: <<system after the read, value read>>
members(system, d) ==
    IF system.computed_members.isNone
    THEN <<[system EXCEPT !.computed_members = Frozen(ComputeMembers(system, d))],
           ComputeMembers(system, d)>>
    ELSE <<system, system.computed_members.val>>

invalidate_members(system) == [system EXCEPT !.computed_members = NoneMembers]

\* an add_groups that leaves the computed members in place
add_groups_keep_cache(system, group_names) ==
    [system EXCEPT !.used_groups = @ \cup group_names]

add_groups(system, group_names) ==
    invalidate_members([system EXCEPT !.used_groups = @ \cup group_names])

remove_groups(system, group_names) ==
    invalidate_members([system EXCEPT !.used_groups = @ \ group_names])

\* set(t) for a tuple t
ToSet(t) == {t[i] : i \in DOMAIN t}

(* System.from_definition *)

\* the only key of a dict with one entry (dict.popitem)
OnlyKey(d) == CHOOSE k \in DOMAIN d : TRUE

\* a bare rule that takes the exponent itself as the weight
bare_rule_weight(new_unit, old_unit_dict, base) ==
    IF Cardinality(DOMAIN old_unit_dict) # 1
    THEN [status |-> "ValueError", base |-> base]
    ELSE [status |-> "ok",
          base |-> Put(base, OnlyKey(old_unit_dict),
                       Put(EmptyDict, new_unit,
                           RInt(old_unit_dict[OnlyKey(old_unit_dict)])))]

\* a bare rule: outcome [status, base] for the dict base_unit_names so far
bare_rule(new_unit, old_unit_dict, base) ==
    IF Cardinality(DOMAIN old_unit_dict) # 1
    THEN [status |-> "ValueError", base |-> base]
    ELSE [status |-> "ok",
          base |-> Put(base, OnlyKey(old_unit_dict),
                       Put(EmptyDict, new_unit,
                           RDiv(RInt(1), RInt(old_unit_dict[OnlyKey(old_unit_dict)]))))]

\* the dict comprehension of from_definition followed by the assignment of
\* new_unit's own weight
new_unit_dict(new_unit, old_unit, new_unit_expanded) ==
    [k \in (DOMAIN new_unit_expanded \ {old_unit}) \cup {new_unit} |->
        IF k = new_unit
        THEN RDiv(RInt(1), RInt(new_unit_expanded[old_unit]))
        ELSE RDiv(RInt(-1), RInt(new_unit_expanded[k]))]

\* an explicit rule that adds its entries to those an earlier rule stored
\* for the same old unit
explicit_rule_merge(new_unit, old_unit, new_unit_expanded, base) ==
    IF ~StrIs(get_root_func(old_unit), old_unit)
    THEN [status |-> "ValueError", base |-> base]
    ELSE IF old_unit \notin DOMAIN new_unit_expanded
         THEN [status |-> "ValueError", base |-> base]
         ELSE [status |-> "ok",
               base |-> Put(base, old_unit,
                            Update(IF old_unit \in DOMAIN base
                                   THEN base[old_unit] ELSE EmptyDict,
                                   new_unit_dict(new_unit, old_unit, new_unit_expanded)))]

\* an explicit rule new_unit : old_unit
explicit_rule(new_unit, old_unit, new_unit_expanded, base) ==
    IF ~StrIs(get_root_func(old_unit), old_unit)
    THEN [status |-> "ValueError", base |-> base]
    ELSE IF old_unit \notin DOMAIN new_unit_expanded
         THEN [status |-> "ValueError", base |-> base]
         ELSE [status |-> "ok",
               base |-> Put(base, old_unit,
                            new_unit_dict(new_unit, old_unit, new_unit_expanded))]

\* one iteration of the loop over unit_replacements; rule = <<lineno, new, old>>
apply_rule(rule, base) ==
    IF rule[3] = None
    THEN bare_rule(rule[2], get_root_func(rule[2]), base)
    ELSE explicit_rule(rule[2], rule[3], get_root_func(rule[2]), base)

RECURSIVE apply_rules(_, _, _)
\* the loop from rule i on; r is the outcome of the rules before i
apply_rules(rules, i, r) ==
    IF r.status # "ok" \/ i > Len(rules)
    THEN r
    ELSE apply_rules(rules, i + 1, apply_rule(rules[i], r.base))

\* the System built after the loop, for the dict base_unit_names
built_system(system_definition, base_unit_names) ==
    [add_groups(NewSystem(system_definition.name),
                ToSet(system_definition.using_group_names))
        EXCEPT !.base_units = Update(@, base_unit_names)]

\* from_definition once the loop has ended with outcome r: [status, table]
from_definition_end(table, system_definition, r) ==
    IF r.status # "ok"
    THEN [status |-> r.status, table |-> table]
    ELSE [status |-> "ok",
          table |-> Put(table, system_definition.name,
                        built_system(system_definition, r.base))]

\* a from_definition that creates the System before it reads the rules
from_definition_register_first(table, system_definition) ==
    from_definition_end(Put(table, system_definition.name,
                            NewSystem(system_definition.name)),
        system_definition,
        apply_rules(system_definition.unit_replacements, 1,
                    [status |-> "ok", base |-> EmptyDict]))

from_definition(table, system_definition) ==
    from_definition_end(table, system_definition,
        apply_rules(system_definition.unit_replacements, 1,
                    [status |-> "ok", base |-> EmptyDict]))

\* a definition with numbered lines: the header is line 1
Definition(name, rules, using) ==
    [name |-> name,
     unit_replacements |-> [i \in DOMAIN rules |-> <<i + 1, rules[i][1], rules[i][2]>>],
     using_group_names |-> using]

(* SystemDefinition.from_lines.  A line of text is a sequence of tokens,    *)
(* each token a piece of the string: the literal "@system", one space, ",", *)
(* ":" or a word of \w characters; the string is their concatenation.        *)

Space == " "
WordTokens == {"mks", "using", "a", "kilogram", "gram"}

RECURSIVE Join(_)
\* the string a token sequence spells
Join(t) == IF t = <<>> THEN "" ELSE Head(t) \o Join(Tail(t))

RECURSIVE lstrip(_)
lstrip(t) == IF t # <<>> /\ Head(t) = Space THEN lstrip(Tail(t)) ELSE t

RECURSIVE rstrip(_)
rstrip(t) ==
    IF t # <<>> /\ t[Len(t)] = Space THEN rstrip(SubSeq(t, 1, Len(t) - 1)) ELSE t

\* str.strip()
strip(t) == rstrip(lstrip(t))

RECURSIVE split(_, _, _)
\* str.split(sep): the pieces of t between the separators, cur being the
\* piece under construction
split(t, sep, cur) ==
    IF t = <<>> THEN <<cur>>
    ELSE IF Head(t) = sep
         THEN <<cur>> \o split(Tail(t), sep, <<>>)
         ELSE split(Tail(t), sep, Append(cur, Head(t)))

RECURSIVE SkipSpaces(_, _)
\* \s* from position i: the first position at or after i that holds no space
SkipSpaces(t, i) ==
    IF i <= Len(t) /\ t[i] = Space THEN SkipSpaces(t, i + 1) ELSE i

RECURSIVE SkipWord(_, _)
\* \w* from position i: the first position at or after i that holds no word
SkipWord(t, i) ==
    IF i <= Len(t) /\ t[i] \in WordTokens THEN SkipWord(t, i + 1) ELSE i

\* "@system\s+(?P<name>\w+)" matches at position i
HeaderAt(t, i) ==
    /\ t[i] = "@system"
    /\ SkipSpaces(t, i + 1) > i + 1
    /\ SkipWord(t, SkipSpaces(t, i + 1)) > SkipSpaces(t, i + 1)

\* the match of _header_re that begins at i, the name group ending before n
\* and u the position after "\s*": the using group takes part when "using"
\* and a space stand at u
header_groups(t, i, n, u) ==
    [matched |-> TRUE,
     name |-> SubSeq(t, SkipSpaces(t, i + 1), n - 1),
     has_used_groups |-> u + 1 <= Len(t) /\ t[u] = "using" /\ t[u + 1] = Space,
     used_groups |-> IF u + 1 <= Len(t) /\ t[u] = "using" /\ t[u + 1] = Space
                     THEN SubSeq(t, u + 2, Len(t)) ELSE <<>>]

header_match(t, i, n) == header_groups(t, i, n, SkipSpaces(t, n))

\* _header_re.search(header): the match at the leftmost position, or None
header_re_search(t) ==
    IF \E i \in 1..Len(t) : HeaderAt(t, i)
    THEN header_match(t, CHOOSE i \in 1..Len(t) :
                            HeaderAt(t, i) /\ \A j \in 1..(i - 1) : ~HeaderAt(t, j),
                      SkipWord(t, SkipSpaces(t,
                          1 + CHOOSE i \in 1..Len(t) :
                            HeaderAt(t, i) /\ \A j \in 1..(i - 1) : ~HeaderAt(t, j))))
    ELSE [matched |-> FALSE, name |-> <<>>, has_used_groups |-> FALSE,
          used_groups |-> <<>>]

\* tuple(a.strip() for a in pieces)
StripAll(pieces) == [k \in DOMAIN pieces |-> Join(strip(pieces[k]))]

\* the group names for a match r
group_names(r) ==
    IF r.has_used_groups /\ r.used_groups # <<>>
    THEN StripAll(split(r.used_groups, ",", <<>>))
    ELSE <<"root">>

\* one rule line: [status, rule]
parse_rule(lineno, line, parts) ==
    IF ":" \in ToSet(line)
    THEN IF Len(parts) # 2
         THEN [status |-> "ValueError", rule |-> <<lineno, "", None>>]
         ELSE [status |-> "ok",
               rule |-> <<lineno, Join(strip(parts[1])), Join(strip(parts[2]))>>]
    ELSE [status |-> "ok", rule |-> <<lineno, Join(line), None>>]

RECURSIVE parse_rules(_, _, _)
\* the loop over the lines after the header, from line i on; r = [status,
\* rules] is the outcome of the lines before i
parse_rules(text, i, r) ==
    IF r.status # "ok" \/ i > Len(text)
    THEN r
    ELSE parse_rules(text, i + 1,
            [status |-> parse_rule(i, strip(text[i]),
                                   split(strip(text[i]), ":", <<>>)).status,
             rules |-> Append(r.rules,
                              parse_rule(i, strip(text[i]),
                                         split(strip(text[i]), ":", <<>>)).rule)])

\* from_lines once the header has matched with r and the rule lines are read
from_lines_end(r, rules) ==
    IF rules.status # "ok"
    THEN [status |-> rules.status, def |-> Definition("", <<>>, <<>>)]
    ELSE [status |-> "ok",
          def |-> [name |-> Join(strip(r.name)),
                   unit_replacements |-> rules.rules,
                   using_group_names |-> group_names(r)]]

\* SystemDefinition.from_lines on the lines the SourceIterator yields, the
\* header being line 1: [status, def]
from_lines_matched(text, r) ==
    IF ~r.matched
    THEN [status |-> "ValueError", def |-> Definition("", <<>>, <<>>)]
    ELSE from_lines_end(r, parse_rules(text, 2, [status |-> "ok", rules |-> <<>>]))

from_lines(text) == from_lines_matched(text, header_re_search(text[1]))

-----------------------------------------------------------------------------
(* The Quantity state machine: two objects, operated on in any order *)

Objs == {"a", "b"}

InitMags == {RInt(0), RInt(2)}
InitUnits == {NoUnits, Unit("meter"), Unit("decameter"), Unit("second")}
\* bare numbers used as right operands
Numbers == {RInt(2)}
\* exponents used with **=
Powers == {-1, 2}

NoOp ==
    [op |-> "none", fun |-> "none", x |-> "a", y |-> "b",
     pre |-> [o \in Objs |-> Quantity(RInt(0), NoUnits)],
     arg |-> Number(RInt(0)),
     status |-> "ok", ret |-> Quantity(RInt(0), NoUnits), truth |-> FALSE]

\* a Quantity as constructed (read = FALSE), or the same Quantity once its
\* dimensionality has been read
InitQuantity(m, u, read) ==
    IF read THEN dimensionality(Quantity(m, u))[1] ELSE Quantity(m, u)

\* the Quantity objects while only Systems are exercised
QIdle ==
    /\ q = [o \in Objs |-> Quantity(RInt(0), NoUnits)]
    /\ last = NoOp
    /\ nops = 0

\* b starts as constructed; a as constructed or with its dimensionality read
QInit ==
    /\ \E ma \in InitMags, ua \in InitUnits, ra \in BOOLEAN,
          mb \in InitMags, ub \in InitUnits :
          q = [o \in Objs |-> IF o = "a" THEN InitQuantity(ma, ua, ra)
                                        ELSE InitQuantity(mb, ub, FALSE)]
    /\ last = NoOp
    /\ nops = 0

InBounds(o) ==
    /\ Abs(o.mag[1]) <= MaxMag
    /\ o.mag[2] <= MaxMag
    /\ \A u \in UnitNames : Abs(o.units[u]) <= MaxExp

\* the right operands object x can be combined with: the other object, or a number
QOperands(x) == {[name |-> y, val |-> q[y]] : y \in Objs \ {x}}
NumOperands == {[name |-> "number", val |-> Number(n)] : n \in Numbers}

\* record the call and store the objects as it leaves them
Finish(op, fun, x, arg, r) ==
    /\ nops < MaxOps
    /\ InBounds(r.self)
    /\ q' = IF arg.name \in Objs
            THEN [q EXCEPT ![x] = r.self, ![arg.name] = r.other]
            ELSE [q EXCEPT ![x] = r.self]
    /\ last' = [op |-> op, fun |-> fun, x |-> x, y |-> arg.name, pre |-> q,
                arg |-> arg.val, status |-> r.status, ret |-> r.ret,
                truth |-> r.truth]
    /\ nops' = nops + 1
    /\ UNCHANGED svars

\* a read of the dimensionality property, d = <<object, value>>
ReadResult(d) == Result("ok", d[1], Number(RInt(0)), d[1], FALSE)

ReadDimensionality ==
    \E x \in Objs :
        \E d \in {dimensionality(q[x])} :
            Finish("dimensionality", "none", x,
                   [name |-> "number", val |-> Number(RInt(0))], ReadResult(d))

InPlaceAddSub ==
    \E x \in Objs, fun \in {"iadd", "isub"} :
        \E arg \in QOperands(x) \cup NumOperands :
            Finish("iadd_sub", fun, x, arg, iadd_sub(q[x], arg.val, fun))

AddSub ==
    \E x \in Objs, fun \in {"iadd", "isub"} :
        \E arg \in QOperands(x) \cup NumOperands :
            Finish("add_sub", fun, x, arg, add_sub(q[x], arg.val, fun))

\* n + q, n - q with a bare number n on the left
ReflectedAddSub ==
    \E x \in Objs, fun \in {"iadd", "isub"} :
        \E arg \in NumOperands :
            \E r \in {IF fun = "iadd" THEN __radd__(q[x], arg.val)
                                      ELSE __rsub__(q[x], arg.val)} :
                Finish("radd_sub", fun, x, arg, r)

Imul ==
    \E x \in Objs : \E arg \in QOperands(x) \cup NumOperands :
        Finish("imul", "none", x, arg, __imul__(q[x], arg.val))

Itruediv ==
    \E x \in Objs : \E arg \in QOperands(x) \cup NumOperands :
        Finish("itruediv", "none", x, arg, __itruediv__(q[x], arg.val))

Ifloordiv ==
    \E x \in Objs : \E arg \in QOperands(x) \cup NumOperands :
        Finish("ifloordiv", "none", x, arg, __ifloordiv__(q[x], arg.val))

Ipow ==
    \E x \in Objs : \E k \in Powers : \E r \in {__ipow__(q[x], k)} :
        Finish("ipow", "none", x, [name |-> "number", val |-> Number(RInt(k))], r)

Ito ==
    \E x \in Objs : \E arg \in QOperands(x) :
        Finish("ito", "none", x, arg, ito(q[x], arg.val))

To ==
    \E x \in Objs : \E arg \in QOperands(x) :
        Finish("to", "none", x, arg, to(q[x], arg.val))

Eq ==
    \E x \in Objs : \E arg \in QOperands(x) \cup NumOperands :
        Finish("eq", "none", x, arg, __eq__(q[x], arg.val))

Lt ==
    \E x \in Objs : \E arg \in QOperands(x) \cup NumOperands :
        Finish("lt", "none", x, arg, __lt__(q[x], arg.val))

QNext ==
    \/ ReadDimensionality
    \/ InPlaceAddSub
    \/ AddSub
    \/ ReflectedAddSub
    \/ Imul
    \/ Itruediv
    \/ Ifloordiv
    \/ Ipow
    \/ Ito
    \/ To
    \/ Eq
    \/ Lt

-----------------------------------------------------------------------------
(* The System state machines *)

MemberUnits == {"meter", "gram"}

\* table: the registry's group table as it was when the cached members were
\* computed
NoHist ==
    [read |-> NoneMembers, added |-> {}, removed |-> {}, ever |-> {},
     table |-> EmptyDict]

NoSysOp ==
    [op |-> "none", name |-> "mks", names |-> {}, def |-> Definition("mks", <<>>, <<>>),
     status |-> "ok", ret |-> {}, pre |-> EmptyDict, hist |-> NoHist]

\* the Systems while only Quantities are exercised
SIdle ==
    /\ groups = Put(EmptyDict, "root", {"meter"})
    /\ systems = EmptyDict
    /\ slast = NoSysOp
    /\ hist = EmptyDict
    /\ sops = 0
    /\ lines = <<>>

Init == QInit /\ SIdle

Spec == Init /\ [][QNext]_vars

(* Membership: one System, its used groups and the registry's groups *)

UsingChoices == {<<"root">>, <<"y">>, <<"x", "y">>}

\* group tables the registry may start with: "y" may be missing
InitGroupTables ==
    {Put(Put(EmptyDict, "root", {"meter"}), "x", mx) : mx \in {{"gram"}, {"meter", "gram"}}}
    \cup
    {Put(Put(Put(EmptyDict, "root", {"meter"}), "x", mx), "y", {"gram"}) :
        mx \in {{"gram"}, {"meter", "gram"}}}

\* the System built from a definition without rules, its members read
\* already or not yet
InitSystem(using, read, d) ==
    IF read
    THEN members(from_definition(EmptyDict, Definition("mks", <<>>, using)).table["mks"], d)[1]
    ELSE from_definition(EmptyDict, Definition("mks", <<>>, using)).table["mks"]

MInit ==
    /\ groups \in InitGroupTables
    /\ \E using \in UsingChoices, read \in BOOLEAN :
          systems = [n \in {"mks"} |-> InitSystem(using, read, groups)]
    /\ hist = [n \in {"mks"} |->
                 [NoHist EXCEPT !.read = systems[n].computed_members,
                                !.table = IF systems[n].computed_members.isNone
                                          THEN EmptyDict ELSE groups]]
    /\ slast = NoSysOp
    /\ sops = 0
    /\ lines = <<>>
    /\ QIdle

GroupArgs == {{"root"}, {"x"}, {"y"}, {"x", "y"}}

SysFinish(op, name, names, status, ret) ==
    /\ sops < MaxSysOps
    /\ slast' = [op |-> op, name |-> name, names |-> names, def |-> NoSysOp.def,
                 status |-> status, ret |-> ret, pre |-> systems, hist |-> hist[name]]
    /\ sops' = sops + 1
    /\ UNCHANGED <<qvars, lines>>

ReadMembers ==
    \E n \in DOMAIN systems : \E r \in {members(systems[n], groups)} :
        /\ SysFinish("members", n, {}, "ok", r[2])
        /\ systems' = [systems EXCEPT ![n] = r[1]]
        /\ hist' = [hist EXCEPT ![n] = [@ EXCEPT !.read = Frozen(r[2]),
                                                 !.added = {}, !.removed = {},
                                                 !.table =
                                                    IF systems[n].computed_members.isNone
                                                    THEN groups ELSE @]]
        /\ UNCHANGED groups

AddGroups ==
    \E n \in DOMAIN systems : \E G \in GroupArgs :
        /\ SysFinish("add_groups", n, G, "ok", {})
        /\ systems' = [systems EXCEPT ![n] = add_groups(@, G)]
        /\ hist' = [hist EXCEPT ![n] = [@ EXCEPT !.read = NoneMembers,
                                                 !.added = @ \cup G,
                                                 !.removed = @ \ G,
                                                 !.ever = @ \cup G]]
        /\ UNCHANGED groups

RemoveGroups ==
    \E n \in DOMAIN systems : \E G \in GroupArgs :
        /\ SysFinish("remove_groups", n, G, "ok", {})
        /\ systems' = [systems EXCEPT ![n] = remove_groups(@, G)]
        /\ hist' = [hist EXCEPT ![n] = [@ EXCEPT !.read = NoneMembers,
                                                 !.added = @ \ G,
                                                 !.removed = @ \cup G]]
        /\ UNCHANGED groups

InvalidateMembers ==
    \E n \in DOMAIN systems : \E G \in {{}} :
        /\ SysFinish("invalidate_members", n, G, "ok", {})
        /\ systems' = [systems EXCEPT ![n] = invalidate_members(@)]
        /\ hist' = [hist EXCEPT ![n] = [@ EXCEPT !.read = NoneMembers]]
        /\ UNCHANGED groups

\* the registry defines group g, or the members of group g change
SetGroupMembers ==
    \E g \in {"x", "y"} : \E M \in SUBSET MemberUnits :
        /\ g \in DOMAIN groups => groups[g] # M
        /\ sops < MaxSysOps
        /\ slast' = [NoSysOp EXCEPT !.op = "set_group", !.names = {g}, !.ret = M,
                                    !.pre = systems]
        /\ sops' = sops + 1
        /\ groups' = Put(groups, g, M)
        /\ UNCHANGED <<systems, hist, qvars, lines>>

MNext ==
    \/ ReadMembers
    \/ AddGroups
    \/ RemoveGroups
    \/ InvalidateMembers
    \/ SetGroupMembers

MemberSpec == MInit /\ [][MNext]_vars

(* Construction: System.from_definition on a registry's system table *)

Rules ==
    {<<"hectare", None>>, <<"newton", None>>, <<"radian", None>>,
     <<"kilogram", "gram">>, <<"newton", "meter">>, <<"newton", "second">>,
     <<"kilogram", "meter">>, <<"hertz", "kilogram">>}

RuleSeqs == UNION {[1..n -> Rules] : n \in 0..MaxRules}

\* the using lists of the definitions
DefUsing == {<<"root">>, <<"x", "y">>}

Definitions ==
    {Definition("mks", rules, using) : rules \in RuleSeqs, using \in DefUsing}

\* system tables before the call: empty, or holding Systems built earlier
InitTables ==
    {EmptyDict,
     from_definition(from_definition(EmptyDict,
                                     Definition("cgs", <<>>, <<"root">>)).table,
                     Definition("mks", <<<<"hertz", None>>>>, <<"x">>)).table}

DInit ==
    /\ groups = Put(EmptyDict, "root", {"meter"})
    /\ systems \in InitTables
    /\ hist = [n \in DOMAIN systems |-> NoHist]
    /\ slast = NoSysOp
    /\ sops = 0
    /\ lines = <<>>
    /\ QIdle

FromDefinition ==
    /\ sops < MaxCalls
    /\ \E def \in Definitions : \E r \in {from_definition(systems, def)} :
          /\ systems' = r.table
          /\ hist' = IF r.status = "ok" THEN Put(hist, def.name, NoHist) ELSE hist
          /\ slast' = [NoSysOp EXCEPT !.op = "from_definition", !.name = def.name,
                                      !.def = def, !.status = r.status,
                                      !.pre = systems]
          /\ sops' = sops + 1
          /\ UNCHANGED <<groups, qvars, lines>>

DNext ==
    \/ FromDefinition

DefSpec == DInit /\ [][DNext]_vars

(* Parsing: SystemDefinition.from_lines on a text *)

HeaderTokens == {"@system", Space, "a", "using", ","}

\* token sequences of at most MaxHeader tokens
Tails == UNION {[1..n -> HeaderTokens] : n \in 0..MaxHeader}

Stem == <<"@system", Space, "mks", Space>>

\* headers as the SourceIterator yields them: stripped and not empty
Headers ==
    {h \in Tails \cup {Stem \o t : t \in Tails} :
        h # <<>> /\ h[1] # Space /\ h[Len(h)] # Space}

\* the lines after the header
Bodies ==
    {<<>>,
     <<<<"kilogram">>>>,
     <<<<"kilogram", Space, ":", Space, "gram">>>>,
     <<<<"kilogram", ":", "gram">>, <<"a", ":", "a", ":", "a">>>>}

LInit ==
    /\ lines \in {<<h>> \o b : h \in Headers, b \in Bodies}
    /\ groups = Put(EmptyDict, "root", {"meter"})
    /\ systems = EmptyDict
    /\ slast = NoSysOp
    /\ hist = EmptyDict
    /\ sops = 0
    /\ QIdle

FromLines ==
    \E r \in {from_lines(lines)} :
        /\ slast' = [NoSysOp EXCEPT !.op = "from_lines", !.name = r.def.name,
                                    !.def = r.def, !.status = r.status]
        /\ UNCHANGED <<groups, systems, hist, sops, lines, qvars>>

LNext ==
    \/ FromLines

LinesSpec == LInit /\ [][LNext]_vars

-----------------------------------------------------------------------------
(* Properties of the Quantity engine *)

\* the dimensionality the Registry gives for an object's current units
TrueDim(o) == base_dimensionality_of(o.units)

\* the left operand and the right operand as they were when the call began
PreSelf == last.pre[last.x]
PreOther == last.arg

SameValue(o, p) == o.mag = p.mag /\ o.units = p.units

\* the condition under which C1 says an additive operator succeeds
AdditiveAllowed ==
    IF PreOther.kind = "Quantity"
    THEN TrueDim(PreOther) = TrueDim(PreSelf)
    ELSE TrueDim(PreSelf) = NoDims

\* C1: each of a + b, a - b, a += b, a -= b succeeds exactly when b is a
\* Quantity whose dimensionality equals that of a's current units, or b is a
\* bare number and a is dimensionless; otherwise it fails with
\* DimensionalityError.
C1_AdditiveSucceedsIffCompatible ==
    last.op \in {"iadd_sub", "add_sub"} =>
        /\ (last.status = "ok") <=> AdditiveAllowed
        /\ ~AdditiveAllowed => last.status = "DimensionalityError"

\* C2: for Quantities a, b of equal dimensionality the copy forms a + b and
\* a - b return a Quantity in a's units whose magnitude is a's magnitude plus
\* (minus) b's magnitude converted by the Registry to a's units, and leave a
\* and b unchanged.
C2_AddSubValue ==
    (/\ last.op = "add_sub"
     /\ PreOther.kind = "Quantity"
     /\ TrueDim(PreOther) = TrueDim(PreSelf)) =>
        /\ last.status = "ok"
        /\ last.ret.units = PreSelf.units
        /\ last.ret.mag =
              Apply(last.fun, PreSelf.mag,
                    IF PreOther.units = PreSelf.units
                    THEN PreOther.mag
                    ELSE convert(PreOther.mag, PreOther.units, PreSelf.units).value)
        /\ SameValue(q[last.x], PreSelf)
        /\ SameValue(q[last.y], PreOther)

\* C3: for two Quantities whose units differ in dimensionality, a == b is
\* False and raises nothing, also when both magnitudes are zero and after any
\* in-place operations on a or b.
C3_EqFalseAcrossDimensions ==
    (/\ last.op = "eq"
     /\ PreOther.kind = "Quantity"
     /\ TrueDim(PreOther) # TrueDim(PreSelf)) =>
        /\ last.status = "ok"
        /\ last.truth = FALSE

\* C4: for Quantities of the same dimensionality but different units, a < b
\* is True exactly when a rescaled to reference units is less than b rescaled
\* to reference units; for differing dimensionality it raises
\* DimensionalityError; against a non-Quantity it is allowed only when a is
\* dimensionless.
C4_LtComparesReferenceMagnitudes ==
    last.op = "lt" =>
        IF PreOther.kind # "Quantity"
        THEN (last.status = "ok") <=> (TrueDim(PreSelf) = NoDims)
        ELSE IF TrueDim(PreOther) # TrueDim(PreSelf)
             THEN last.status = "DimensionalityError"
             ELSE PreOther.units # PreSelf.units =>
                    /\ last.status = "ok"
                    /\ last.truth = RLt(convert_to_reference(PreSelf).mag,
                                        convert_to_reference(PreOther).mag)

\* what the Registry answers for the conversion the last to / ito asked for
Asked == convert(PreSelf.mag, PreSelf.units, PreOther.units)

\* C5: q.to(target) never changes q's magnitude or units and returns a
\* Quantity in the target's units with magnitude Registry.convert(q.magnitude,
\* q.units, target units); q.ito(target) writes that magnitude and those units
\* into q and returns q; a dimensionality error of the Registry propagates
\* from both and leaves q's magnitude and units unchanged.
C5_ToIsPureItoIsInPlace ==
    /\ last.op = "to" =>
          /\ SameValue(q[last.x], PreSelf)
          /\ last.status = Asked.status
          /\ Asked.status = "ok" =>
                /\ last.ret.units = PreOther.units
                /\ last.ret.mag = Asked.value
    /\ last.op = "ito" =>
          /\ last.status = Asked.status
          /\ Asked.status = "ok" =>
                /\ q[last.x].units = PreOther.units
                /\ q[last.x].mag = Asked.value
                /\ last.ret = q[last.x]
          /\ Asked.status # "ok" => SameValue(q[last.x], PreSelf)

\* a conversion between different units of one dimension has been made by to
C5_Witness ==
    /\ last.op = "to"
    /\ last.status = "ok"
    /\ last.ret.units # PreSelf.units
    /\ last.ret.mag # PreSelf.mag
    /\ q[last.x].dim # {}

\* C14: after any sequence of operations on a Quantity, the value its
\* dimensionality property returns is Registry.base_dimensionality_of of its
\* current units: the memoized dimensionality is never stale.
C14_DimensionalityNeverStale ==
    last.op = "dimensionality" => last.ret.dim = {TrueDim(q[last.x])}

\* C15: for a bare number n and a dimensionless Quantity q, n - q is a
\* Quantity of magnitude n minus q.magnitude and n + q one of magnitude n plus
\* q.magnitude; for a q that is not dimensionless both fail with
\* DimensionalityError.
C15_ReflectedSubtraction ==
    last.op = "radd_sub" =>
        IF TrueDim(PreSelf) = NoDims
        THEN /\ last.status = "ok"
             /\ last.ret.mag =
                   IF last.fun = "iadd"
                   THEN RAdd(PreOther.mag, PreSelf.mag)
                   ELSE RSub(PreOther.mag, PreSelf.mag)
        ELSE last.status = "DimensionalityError"

-----------------------------------------------------------------------------
(* Properties of System membership *)

\* the union of the current members of the used groups that resolve
CurrentUnion(system) ==
    UNION {groups[g] : g \in system.used_groups \cap DOMAIN groups}

\* the union of the current members of the used groups other than x
OtherUnion(system, x) ==
    UNION {groups[g] : g \in (system.used_groups \ {x}) \cap DOMAIN groups}

\* C6 as stated: after add_groups(x) the next read of members contains every
\* member of x; after a subsequent remove_groups(x) the next read of members
\* contains none of x's members (x a group present in the registry).
C6_AsStated ==
    slast.op = "members" =>
        \A x \in DOMAIN groups :
            /\ x \in slast.hist.added => groups[x] \subseteq slast.ret
            /\ x \in slast.hist.removed \cap slast.hist.ever =>
                  groups[x] \cap slast.ret = {}

\* C6, amended: after add_groups(x) the next read of members contains every
\* member of x; after a subsequent remove_groups(x) the next read of members
\* contains no member of x other than those that are members of another group
\* the System still uses.
C6_MembersFollowAddRemove ==
    slast.op = "members" =>
        \A x \in DOMAIN groups :
            /\ x \in slast.hist.added => groups[x] \subseteq slast.ret
            /\ x \in slast.hist.removed \cap slast.hist.ever =>
                  groups[x] \cap slast.ret \subseteq OtherUnion(systems[slast.name], x)

\* a group with members was added and removed again, and the read of members
\* that follows is not empty and holds none of that group's members
C6_Witness ==
    /\ slast.op = "members"
    /\ \E x \in DOMAIN groups :
          /\ x \in slast.hist.removed \cap slast.hist.ever
          /\ groups[x] # {}
          /\ groups[x] \cap slast.ret = {}
          /\ slast.ret # {}

TableSeen == hist[slast.name].table

\* C12: a used group name that is not in the registry's group table is
\* skipped: members is the union of the members of the used groups that
\* resolved when it was computed, that partial set is cached, and it is what
\* later reads return even after a group of that name has been added to the
\* registry, until the cache is invalidated.
C12_UnresolvedSkippedAndCached ==
    slast.op = "members" =>
        /\ slast.ret =
              UNION {TableSeen[g] :
                        g \in systems[slast.name].used_groups \cap DOMAIN TableSeen}
        /\ systems[slast.name].computed_members = Frozen(slast.ret)

\* a read returned the set computed while a used group was missing from the
\* registry, although that group is in the registry now and has a member
\* the set lacks
C12_Witness ==
    /\ slast.op = "members"
    /\ \E g \in systems[slast.name].used_groups :
          /\ g \notin DOMAIN TableSeen
          /\ g \in DOMAIN groups
          /\ ~(groups[g] \subseteq slast.ret)
    /\ slast.ret # {}

-----------------------------------------------------------------------------
(* Properties of System.from_definition *)

Def == slast.def
RuleCount == Len(Def.unit_replacements)
NewOf(i) == Def.unit_replacements[i][2]
OldOf(i) == Def.unit_replacements[i][3]
Expansion(i) == get_root_func(NewOf(i))

\* the root unit rule i stands for: its old unit, or for a bare rule the
\* single root term of its new unit
RootOf(i) == IF OldOf(i) = None THEN OnlyKey(Expansion(i)) ELSE OldOf(i)

\* rule i fails validation
RuleInvalid(i) ==
    IF OldOf(i) = None
    THEN Cardinality(DOMAIN Expansion(i)) # 1
    ELSE \/ ~StrIs(get_root_func(OldOf(i)), OldOf(i))
         \/ OldOf(i) \notin DOMAIN Expansion(i)

\* no rule after rule i stands for the same root unit
LastForRoot(i) == \A j \in (i + 1)..RuleCount : RootOf(j) # RootOf(i)

Built == systems[Def.name]

\* the algebraic inverse of new = old^e_old * PRODUCT r^e_r
Inverse(new_unit, old_unit, expanded) ==
    [k \in (DOMAIN expanded \ {old_unit}) \cup {new_unit} |->
        IF k = new_unit
        THEN RDiv(RInt(1), RInt(expanded[old_unit]))
        ELSE RDiv(RInt(-expanded[k]), RInt(expanded[old_unit]))]

\* C8: for an explicit rule new_unit : old_unit, where new_unit expands with
\* exponent e_old on old_unit and e_r on each other root term r,
\* base_units[old_unit] maps new_unit to 1/e_old and each other root term r
\* to -e_r/e_old, and holds no other key.
C8_ExplicitRuleInverts ==
    (slast.op = "from_definition" /\ slast.status = "ok") =>
        \A i \in 1..RuleCount :
            (OldOf(i) # None /\ LastForRoot(i)) =>
                Built.base_units[OldOf(i)] = Inverse(NewOf(i), OldOf(i), Expansion(i))

\* C9: for a bare rule new_unit, if new_unit expands to exactly one root term
\* r with exponent e then base_units[r] becomes {new_unit: 1/e}; if it
\* expands to zero or to more than one root term construction fails.
C9_BareRule ==
    slast.op = "from_definition" =>
        /\ (\E i \in 1..RuleCount :
                OldOf(i) = None /\ Cardinality(DOMAIN Expansion(i)) # 1)
              => slast.status = "ValueError"
        /\ slast.status = "ok" =>
              \A i \in 1..RuleCount :
                  (OldOf(i) = None /\ LastForRoot(i)) =>
                      Built.base_units[RootOf(i)] =
                          Put(EmptyDict, NewOf(i),
                              RDiv(RInt(1), RInt(Expansion(i)[RootOf(i)])))

\* a System was built from a bare rule whose root term has an exponent other
\* than 1
C9_Witness ==
    /\ slast.op = "from_definition"
    /\ slast.status = "ok"
    /\ \E i \in 1..RuleCount :
          /\ OldOf(i) = None
          /\ LastForRoot(i)
          /\ Expansion(i)[RootOf(i)] # 1
          /\ DOMAIN Built.base_units["meter"] = {"hectare"}

\* C10: if a rule of the definition fails validation an error is raised and
\* the registry's system table is as before the call; otherwise the System is
\* registered under its name with used groups equal to the set of the
\* definition's using_group_names.
C10_FailureRegistersNothing ==
    slast.op = "from_definition" =>
        IF \E i \in 1..RuleCount : RuleInvalid(i)
        THEN /\ slast.status = "ValueError"
             /\ systems = slast.pre
        ELSE /\ slast.status = "ok"
             /\ DOMAIN systems = DOMAIN slast.pre \cup {Def.name}
             /\ Built.name = Def.name
             /\ Built.used_groups = ToSet(Def.using_group_names)
             /\ \A n \in DOMAIN slast.pre \ {Def.name} : systems[n] = slast.pre[n]

\* a definition whose second rule fails was refused while a System of its
\* name was registered, and that System is still the registered one
C10_Witness ==
    /\ slast.op = "from_definition"
    /\ slast.status = "ValueError"
    /\ RuleCount = 2
    /\ ~RuleInvalid(1)
    /\ Def.name \in DOMAIN slast.pre
    /\ systems[Def.name] = slast.pre[Def.name]

\* what rule i stores when it is the only rule of a definition
AloneOf(i) == apply_rule(Def.unit_replacements[i], EmptyDict).base[RootOf(i)]

\* C13: when several rules of one definition resolve to the same root unit,
\* from_definition does not fail and base_units[root] is exactly the mapping
\* the last such rule produces, with nothing left over from earlier rules.
C13_LastWriteWins ==
    (/\ slast.op = "from_definition"
     /\ \A i \in 1..RuleCount : ~RuleInvalid(i)) =>
        /\ slast.status = "ok"
        /\ \A i \in 1..RuleCount :
              LastForRoot(i) => Built.base_units[RootOf(i)] = AloneOf(i)
        /\ DOMAIN Built.base_units = {RootOf(i) : i \in 1..RuleCount}

\* a System was built from two rules for the same root unit that store
\* different mappings, the earlier one holding a key the later one lacks
C13_Witness ==
    /\ slast.op = "from_definition"
    /\ slast.status = "ok"
    /\ \E i, j \in 1..RuleCount :
          /\ i < j
          /\ RootOf(i) = RootOf(j)
          /\ ~(DOMAIN AloneOf(i) \subseteq DOMAIN AloneOf(j))
          /\ Built.base_units[RootOf(j)] = AloneOf(j)

-----------------------------------------------------------------------------
(* Properties of SystemDefinition.from_lines *)

Header == lines[1]

\* the position after the name of a header that begins "@system <name>"
NameEnd(h) == SkipWord(h, SkipSpaces(h, 2))

\* the position of the word that follows the name and the spaces after it
AfterName(h) == SkipSpaces(h, NameEnd(h))

\* the header is '@system <name>' or '@system <name> using <group-list>',
\* the list possibly empty
WellFormed(h) ==
    /\ h[1] = "@system"
    /\ SkipSpaces(h, 2) > 2
    /\ NameEnd(h) > SkipSpaces(h, 2)
    /\ \/ NameEnd(h) > Len(h)
       \/ /\ AfterName(h) > NameEnd(h)
          /\ AfterName(h) <= Len(h)
          /\ h[AfterName(h)] = "using"
          /\ \/ AfterName(h) = Len(h)
             \/ h[AfterName(h) + 1] = Space

\* the text of the group list of a well-formed header, empty without a clause
GroupList(h) ==
    IF NameEnd(h) > Len(h) THEN <<>> ELSE SubSeq(h, AfterName(h) + 2, Len(h))

\* the names the claim gives a well-formed header
NamesOf(h) ==
    IF strip(GroupList(h)) = <<>>
    THEN <<"root">>
    ELSE StripAll(split(GroupList(h), ",", <<>>))

\* C11: from_lines fails when the header does not match
\* '@system <name> [using <group-list>]'; without a using clause or with an
\* empty group list using_group_names is ("root",); otherwise it is the
\* comma-separated group names in header order, each stripped.
C11_HeaderParsing ==
    slast.op = "from_lines" =>
        IF WellFormed(Header)
        THEN slast.status = "ok" => slast.def.using_group_names = NamesOf(Header)
        ELSE slast.status = "ValueError"

====
